---- MODULE Spec2Model ----
(***************************************************************************)
(* Model of Quanta.py: the QuantumCalculator class (observe_qubits,        *)
(* calculate_error_rates, calculate_gate_variables, calculate_spin,        *)
(* grovers_speed_between_qubits) and the GUI handlers that call it.        *)
(*                                                                         *)
(* Text is modelled as sequences of one-character strings, so that         *)
(* str.upper(), len() and "'1' in outcome" are computed, not assumed.      *)
(* A float quotient a / b is kept as the pair <<a, b>>.                    *)
(* Gate angles are counted in quarter turns (angle k stands for k*pi/2).   *)
(* The quantum library (QuantumCircuit, AerSimulator, Result) is modelled  *)
(* by what the calls of the source rely on; any library call may also      *)
(* raise (input "fault" names the step of the call that raises).           *)
(***************************************************************************)
EXTENDS Integers, Sequences, FiniteSets, TLC

\* pc: "idle" (the main loop waits) or "done" (a call has just ended);
\* op, args, outcome, circuit, runs, logged: the call that has just ended
\* (its name, arguments, what its caller got, the circuit it built, the
\* backend invocations it made, its log lines); display: what its handler
\* put on the window and handed to log(); backend: the calculator's only
\* field.
\* log_queue: the window's queue of messages; log_text: the lines of the log
\* widget; timer: "scheduled" (an after() callback of process_log_queue is
\* pending) or "running" (the callback runs); put_count: how many messages
\* log() has put so far (a message carries its number as its identity).
VARIABLES pc, op, args, outcome, circuit, runs, logged, display, backend,
          log_queue, log_text, timer, put_count

vars == <<pc, op, args, outcome, circuit, runs, logged, display, backend,
          log_queue, log_text, timer, put_count>>

call_vars == <<pc, op, args, outcome, circuit, runs, display, backend>>

log_vars == <<log_queue, log_text, timer, put_count>>

(* ------------------------------ bounds -------------------------------- *)

MaxQubits == 3
MaxShots == 3
MaxMessages == 3

(* ------------------------- program constants -------------------------- *)

SpinShots == 1024
SpinDivisor == 1024
GateShots == 1024

(* ------------------------------- values ------------------------------- *)

None == "None"
\* what stands for "no circuit" (a constructor or gate call that raised)
NoCircuit == [num_qubits |-> 0 - 1, num_clbits |-> 0 - 1, data |-> <<>>]
Backend == "AerSimulator(method=statevector)"

RECURSIVE SumOver(_, _)
SumOver(f, S) ==
  IF S = {} THEN 0
  ELSE LET x == CHOOSE y \in S : TRUE IN f[x] + SumOver(f, S \ {x})

\* sum(counts.values())
SumValues(counts) == SumOver(counts, DOMAIN counts)

\* str.upper() on the characters the inputs are drawn from
UpperChar(ch) ==
  CASE ch = "r" -> "R"
    [] ch = "x" -> "X"
    [] ch = "y" -> "Y"
    [] ch = "z" -> "Z"
    [] ch = "h" -> "H"
    [] ch = "c" -> "C"
    [] OTHER -> ch

Upper(s) == [i \in 1..Len(s) |-> UpperChar(s[i])]

(* ------------------------ QuantumCircuit (library) -------------------- *)

\* QuantumCircuit(n, c): registers of negative size are refused
NewCircuit(n, c) ==
  IF n < 0 \/ c < 0 THEN NoCircuit
  ELSE [num_qubits |-> n, num_clbits |-> c, data |-> <<>>]

\* a bit index is resolved like a Python list index: -1 is the last bit
BadIndex == 0 - 1

ResolveIndex(i, size) ==
  IF 0 <= i /\ i < size THEN i
  ELSE IF i < 0 /\ i + size >= 0 THEN i + size
  ELSE BadIndex

Instr(name, qubits, clbits, angle) ==
  [name |-> name, qubits |-> qubits, clbits |-> clbits, angle |-> angle]

\* circuit.<gate>(..., qubits): every index must resolve and no qubit may
\* be named twice; otherwise CircuitError (NoCircuit stands for the error)
AppendGate(c, name, qubits, angle) ==
  IF c = NoCircuit THEN NoCircuit ELSE
  LET res == [i \in 1..Len(qubits) |-> ResolveIndex(qubits[i], c.num_qubits)] IN
  IF \E i \in 1..Len(res) : res[i] = BadIndex THEN NoCircuit
  ELSE IF \E i, j \in 1..Len(res) : i # j /\ res[i] = res[j] THEN NoCircuit
  ELSE [c EXCEPT !.data = Append(@, Instr(name, res, <<>>, angle))]

\* circuit.h(range(n)): one h per qubit, in increasing order; an empty
\* range is refused ("One or more of the arguments are empty")
RECURSIVE AppendOnEach(_, _, _, _)
AppendOnEach(c, name, from, n) ==
  IF from >= n THEN c
  ELSE LET c1 == AppendGate(c, name, <<from>>, 0) IN
       IF c1 = NoCircuit THEN NoCircuit ELSE AppendOnEach(c1, name, from + 1, n)

BroadcastGate(c, name, n) ==
  IF n <= 0 THEN NoCircuit ELSE AppendOnEach(c, name, 0, n)

\* circuit.measure(q, c)
AppendMeasure(c, q, cl) ==
  IF c = NoCircuit THEN NoCircuit ELSE
  IF ResolveIndex(q, c.num_qubits) = BadIndex
     \/ ResolveIndex(cl, c.num_clbits) = BadIndex THEN NoCircuit
  ELSE [c EXCEPT !.data =
          Append(@, Instr("measure", <<ResolveIndex(q, c.num_qubits)>>,
                          <<ResolveIndex(cl, c.num_clbits)>>, 0))]

\* circuit.measure(range(n), range(n)): qubit i into classical bit i
RECURSIVE MeasureEach(_, _, _)
MeasureEach(c, from, n) ==
  IF from >= n THEN c
  ELSE LET c1 == AppendMeasure(c, from, from) IN
       IF c1 = NoCircuit THEN NoCircuit ELSE MeasureEach(c1, from + 1, n)

\* circuit.save_statevector()
SaveStatevector(c) ==
  IF c = NoCircuit THEN NoCircuit ELSE
  [c EXCEPT !.data = Append(@, Instr("save_statevector", <<>>, <<>>, 0))]

GateNames == {"h", "x", "rx", "ry", "rz", "cz"}

\* the gates of a circuit, without measure and save instructions
Gates(c) == SelectSeq(c.data, LAMBDA ins : ins.name \in GateNames)

HasMeasure(c) == \E i \in 1..Len(c.data) : c.data[i].name = "measure"

(* ------------------------- AerSimulator (library) --------------------- *)

\* One qubit's state, as far as measurement can tell: "0", "1", "+", "-"
\* (H on 0 and on 1) and "s" (any other state with both outcomes possible).
ApplyOne(q, ins) ==
  CASE ins.name = "x" ->
         (CASE q = "0" -> "1" [] q = "1" -> "0" [] OTHER -> q)
    [] ins.name = "h" ->
         (CASE q = "0" -> "+" [] q = "1" -> "-" [] q = "+" -> "0"
            [] q = "-" -> "1" [] OTHER -> "s")
    [] ins.name \in {"rx", "ry"} ->
         (CASE ins.angle % 4 = 0 -> q
            [] ins.angle % 4 = 2 ->
                 (CASE q = "0" -> "1" [] q = "1" -> "0" [] OTHER -> q)
            [] OTHER -> "s")
    [] OTHER -> q   \* rz and cz change phases only

\* the register starts in the all-zero state; gates act in sequence order
RECURSIVE Evolve(_, _, _)
Evolve(state, data, i) ==
  IF i > Len(data) THEN state
  ELSE LET ins == data[i] IN
       IF ins.name \in GateNames \ {"cz"}
       THEN Evolve([state EXCEPT ![ins.qubits[1]] = ApplyOne(@, ins)], data, i + 1)
       ELSE Evolve(state, data, i + 1)

\* final state of the gates placed before instruction number upto
StateBefore(c, upto) ==
  Evolve([q \in 0..(c.num_qubits - 1) |-> "0"], SubSeq(c.data, 1, upto - 1), 1)

FinalState(c) == StateBefore(c, Len(c.data) + 1)

BitOutcomes(q) == IF q = "0" THEN {"0"} ELSE IF q = "1" THEN {"1"} ELSE {"0", "1"}

\* The bitstrings a shot can give: one character per classical bit, the
\* classical bit 0 last; a classical bit never written reads "0".
Support(c) ==
  LET n == c.num_clbits
      allowed(cl) ==
        LET ms == {i \in 1..Len(c.data) :
                     c.data[i].name = "measure" /\ c.data[i].clbits[1] = cl} IN
        IF ms = {} THEN {"0"}
        ELSE LET last == CHOOSE i \in ms : \A j \in ms : j <= i IN
             BitOutcomes(StateBefore(c, last)[c.data[last].qubits[1]])
  IN {k \in [1..n -> {"0", "1"}] : \A j \in 1..n : k[j] \in allowed(n - j)}

\* All tabulations of `shots` draws from the outcomes S: each outcome that
\* was drawn at least once is a key, with the number of times it was drawn.
RECURSIVE Tabulations(_, _)
Tabulations(S, shots) ==
  IF S = {} THEN (IF shots = 0 THEN {<<>>} ELSE {})
  ELSE LET e == CHOOSE x \in S : TRUE IN
       UNION { { IF k = 0 THEN t ELSE (e :> k) @@ t : t \in Tabulations(S \ {e}, shots - k) }
               : k \in 0..shots }

\* The Outcome Tables backend.run(circuit, shots=shots) can give
SampledTables(c, shots) ==
  IF shots <= 0 THEN {<<>>} ELSE Tabulations(Support(c), shots)

\* job.result(): counts only for a circuit that measures; the saved
\* statevector is that of the final state
RunResult(c, shots, table) ==
  [has_counts |-> HasMeasure(c) /\ c.num_clbits > 0,
   counts |-> IF HasMeasure(c) /\ c.num_clbits > 0 THEN table ELSE <<>>,
   statevector |-> FinalState(c),
   shots |-> shots]

(* --------------------- exceptions inside one call --------------------- *)

\* What one call has done so far: the exception in flight ("" when none),
\* the circuit built, the backend invocations made, the value about to be
\* returned and the lines written to the log file.
St0 == [exc |-> "", circuit |-> NoCircuit, runs |-> <<>>, value |-> None, log |-> <<>>]

Failed(st) == st.exc # ""

Raise(st, e) == [st EXCEPT !.exc = e]

\* A statement that builds or extends the circuit, as step number i of the
\* call: skipped when an exception is in flight, raising when the library
\* faults at this step or refuses the arguments.
CircuitStep(st, i, fault, c) ==
  IF Failed(st) THEN st
  ELSE IF fault = i THEN Raise(st, "LibraryError")
  ELSE IF c = NoCircuit THEN Raise(st, "CircuitError")
  ELSE [st EXCEPT !.circuit = c]

\* job = backend.run(circuit, shots=shots); result = job.result()
RunStep(st, i, fault, shots) ==
  IF Failed(st) THEN st
  ELSE LET ran == [st EXCEPT !.runs = Append(@, [circuit |-> st.circuit, shots |-> shots])] IN
       IF fault = i THEN Raise(ran, "LibraryError")
       ELSE IF fault = i + 1 THEN Raise(ran, "LibraryError")
       ELSE ran

\* result.get_counts(circuit): refused when the result holds no counts
GetCounts(st, i, fault, result) ==
  IF Failed(st) THEN st
  ELSE IF fault = i THEN Raise(st, "LibraryError")
  ELSE IF ~result.has_counts THEN Raise(st, "QiskitError")
  ELSE [st EXCEPT !.value = result.counts]

LogInfo(st) == IF Failed(st) THEN st ELSE [st EXCEPT !.log = Append(@, "info")]

\* a slip that logs the error and returns instead of raising again
ExceptSwallowed(st) ==
  IF Failed(st) THEN [st EXCEPT !.log = Append(@, "error"), !.exc = "", !.value = None]
  ELSE st

\* except Exception as e: logging.error(...); raise
ExceptReraise(st) ==
  IF Failed(st) THEN [st EXCEPT !.log = Append(@, "error"), !.value = None]
  ELSE st

\* what the caller of a call gets
Outcome(st) ==
  IF Failed(st) THEN [kind |-> "raise", error |-> st.exc, value |-> None]
  ELSE [kind |-> "return", error |-> "", value |-> st.value]

(* --------------------------- QuantumCalculator ------------------------ *)

\* a slip that hands the wrong variable to the backend as the shot count
observe_qubits_wrong_shots(num_qubits, shots, fault, table) ==
  LET s1 == CircuitStep(St0, 1, fault, NewCircuit(num_qubits, num_qubits))
      s2 == CircuitStep(s1, 2, fault, BroadcastGate(s1.circuit, "h", num_qubits))
      s3 == CircuitStep(s2, 3, fault, MeasureEach(s2.circuit, 0, num_qubits))
      s4 == CircuitStep(s3, 4, fault, SaveStatevector(s3.circuit))
      s5 == RunStep(s4, 5, fault, num_qubits)
      s6 == GetCounts(s5, 7, fault, RunResult(s5.circuit, num_qubits, table))
  IN ExceptReraise(LogInfo(s6))

\* observe_qubits(num_qubits, shots); table is what the sampler draws
core_observe_qubits(num_qubits, shots, fault, table) ==
  LET s1 == CircuitStep(St0, 1, fault, NewCircuit(num_qubits, num_qubits))
      s2 == CircuitStep(s1, 2, fault, BroadcastGate(s1.circuit, "h", num_qubits))
      s3 == CircuitStep(s2, 3, fault, MeasureEach(s2.circuit, 0, num_qubits))
      s4 == CircuitStep(s3, 4, fault, SaveStatevector(s3.circuit))
      s5 == RunStep(s4, 5, fault, shots)
      s6 == GetCounts(s5, 7, fault, RunResult(s5.circuit, shots, table))
  IN ExceptReraise(LogInfo(s6))

\* '1' in outcome
HasOne(outcome_key) == \E i \in 1..Len(outcome_key) : outcome_key[i] = "1"

\* a slip that counts every outcome as an error
ErrorCountAll(counts) == SumOver(counts, DOMAIN counts)

\* errors: the counts of the outcomes that hold a '1'
ErrorCount(counts) == SumOver(counts, {k \in DOMAIN counts : HasOne(k)})

\* errors / total, as the pair <<errors, total>>; ZeroDivisionError on 0
Divide(st, a, b) ==
  IF Failed(st) THEN st
  ELSE IF b = 0 THEN Raise(st, "ZeroDivisionError")
  ELSE [st EXCEPT !.value = <<a, b>>]

\* calculate_error_rates(num_qubits, shots)
core_calculate_error_rates(num_qubits, shots, fault, table) ==
  LET s1 == core_observe_qubits(num_qubits, shots, fault, table)
      s2 == IF Failed(s1) THEN s1
            ELSE Divide(s1, ErrorCount(s1.value), SumValues(s1.value))
  IN ExceptReraise(LogInfo(s2))

\* the if/elif chain: the gate method each compared text selects
GateChain(upper_type) ==
  CASE upper_type = <<"R", "X">> -> "rx"
    [] upper_type = <<"R", "Y">> -> "ry"
    [] upper_type = <<"R", "Z">> -> "rz"
    [] upper_type = <<"H">> -> "h"
    [] upper_type = <<"X">> -> "x"
    [] OTHER -> "unsupported"

\* a slip that compares gate_type without .upper()
GateMethodCaseSensitive(gate_type) == GateChain(gate_type)

\* the chain is entered with gate_type.upper()
GateMethod(gate_type) == GateChain(Upper(gate_type))

\* rx, ry and rz take the angle; h and x take none
GateAngle(method, angle) == IF method \in {"rx", "ry", "rz"} THEN angle ELSE 0

\* calculate_gate_variables(gate_type, angle, qubit)
core_calculate_gate_variables(gate_type, angle, qubit, fault) ==
  LET s1 == CircuitStep(St0, 1, fault, NewCircuit(qubit + 1, 0))
      m  == GateMethod(gate_type)
      s2 == IF Failed(s1) THEN s1
            ELSE IF m = "unsupported" THEN Raise(s1, "ValueError")
            ELSE CircuitStep(s1, 2, fault,
                             AppendGate(s1.circuit, m, <<qubit>>, GateAngle(m, angle)))
      s3 == CircuitStep(s2, 3, fault, SaveStatevector(s2.circuit))
      s4 == IF Failed(s3) THEN s3 ELSE [s3 EXCEPT !.value = s3.circuit]
  IN ExceptReraise(LogInfo(s4))

\* the qubit_state argument None
NoState == <<"None">>

\* counts.get('1', 0)
GetOr(counts, key, default) == IF key \in DOMAIN counts THEN counts[key] ELSE default

\* a slip that applies X whatever qubit_state is
SpinPrepareAlways(st, qubit_state, fault) ==
  CircuitStep(st, 2, fault, AppendGate(st.circuit, "x", <<0>>, 0))

\* if qubit_state == '1': circuit.x(0)
SpinPrepare(st, qubit_state, fault) ==
  IF qubit_state = <<"1">>
  THEN CircuitStep(st, 2, fault, AppendGate(st.circuit, "x", <<0>>, 0))
  ELSE st

\* calculate_spin(qubit_state)
core_calculate_spin(qubit_state, fault, table) ==
  LET s1 == CircuitStep(St0, 1, fault, NewCircuit(1, 1))
      s2 == SpinPrepare(s1, qubit_state, fault)
      s3 == CircuitStep(s2, 3, fault, AppendGate(s2.circuit, "h", <<0>>, 0))
      s4 == CircuitStep(s3, 4, fault, AppendMeasure(s3.circuit, 0, 0))
      s5 == CircuitStep(s4, 5, fault, SaveStatevector(s4.circuit))
      s6 == RunStep(s5, 6, fault, SpinShots)
      s7 == GetCounts(s6, 8, fault, RunResult(s6.circuit, SpinShots, table))
      s8 == IF Failed(s7) THEN s7
            ELSE Divide(s7, GetOr(s7.value, <<"1">>, 0), SpinDivisor)
  IN ExceptReraise(LogInfo(s8))

\* for idx, bit in enumerate(target_state): if bit == '0': oracle.x(idx)
RECURSIVE XLoop(_, _, _)
XLoop(c, target_state, pos) ==
  IF pos > Len(target_state) THEN c
  ELSE IF target_state[pos] = "0"
       THEN XLoop(AppendGate(c, "x", <<pos - 1>>, 0), target_state, pos + 1)
       ELSE XLoop(c, target_state, pos + 1)

\* the X layer as one step of the call: it calls the library only when
\* some bit of the target is '0'
XLayer(st, i, fault, target_state) ==
  IF \E pos \in 1..Len(target_state) : target_state[pos] = "0"
  THEN CircuitStep(st, i, fault, XLoop(st.circuit, target_state, 1))
  ELSE st

\* 2 ** n
RECURSIVE Pow2(_)
Pow2(n) == IF n <= 0 THEN 1 ELSE 2 * Pow2(n - 1)

\* result.optimal_num_iterations, by the library's formula for one marked
\* state: round(pi/4 * sqrt(2^n)), the k with
\* (4k - 2)^2 <= pi^2 * 2^n < (4k + 2)^2 (pi^2 taken as 98696 / 10000)
OptimalNumIterations(n) ==
  CHOOSE k \in 0..Pow2(n) :
    /\ 10000 * (4 * k - 2) * (4 * k - 2) <= 98696 * Pow2(n) \/ k = 0
    /\ 98696 * Pow2(n) < 10000 * (4 * k + 2) * (4 * k + 2)

\* a slip that leaves the length check out
LengthCheckSkipped(st, target_state, num_qubits) == st

\* if len(target_state) != num_qubits: raise ValueError(...)
LengthCheck(st, target_state, num_qubits) ==
  IF Failed(st) THEN st
  ELSE IF Len(target_state) # num_qubits THEN Raise(st, "ValueError")
  ELSE st

\* from qiskit.algorithms import Grover (step 1 of the call)
ImportStep(st, fault) == IF fault = 1 THEN Raise(st, "ImportError") ELSE st

\* a library call that neither builds a circuit nor runs the backend
LibStep(st, i, fault) ==
  IF Failed(st) THEN st
  ELSE IF fault = i THEN Raise(st, "LibraryError")
  ELSE st

\* result = grover.run(self.backend): the backend is handed to the library;
\* no shot count is passed (recorded as 0)
GroverRun(st, i, fault) ==
  IF Failed(st) THEN st
  ELSE LET ran == [st EXCEPT !.runs = Append(@, [circuit |-> st.circuit, shots |-> 0])] IN
       IF fault = i THEN Raise(ran, "LibraryError") ELSE ran

\* grovers_speed_between_qubits(target_state, num_qubits)
core_grovers_speed_between_qubits(target_state, num_qubits, fault) ==
  LET s1 == ImportStep(St0, fault)
      s2 == LengthCheck(s1, target_state, num_qubits)
      s3 == CircuitStep(s2, 2, fault, NewCircuit(num_qubits, 0))
      s4 == XLayer(s3, 3, fault, target_state)
      s5 == CircuitStep(s4, 4, fault,
                        AppendGate(s4.circuit, "cz", <<num_qubits - 1, num_qubits - 2>>, 0))
      s6 == XLayer(s5, 5, fault, target_state)
      s7 == CircuitStep(s6, 6, fault, SaveStatevector(s6.circuit))
      s8 == GroverRun(LibStep(s7, 7, fault), 8, fault)
      s9 == LibStep(s8, 9, fault)
      s10 == IF Failed(s9) THEN s9
             ELSE [s9 EXCEPT !.value = OptimalNumIterations(num_qubits)]
  IN ExceptReraise(LogInfo(s10))

(* ------------------------ QuantumVerseCalculatorGUI ------------------- *)

NoDisplay == [kind |-> "none", title |-> "", queued |-> <<>>]

ErrorBox(title) == [kind |-> "error", title |-> title, queued |-> <<>>]

\* the result widget is filled, then self.log(...) reports the operation
ResultShown(what) == [kind |-> "result", title |-> what, queued |-> <<what>>]

\* a handler's except clauses: ValueError, ImportError, then Exception
HandlerExcept(st) ==
  CASE st.exc = "ValueError" -> ErrorBox("Invalid Input")
    [] st.exc = "ImportError" -> ErrorBox("Import Error")
    [] OTHER -> ErrorBox("Error")

\* what a handler leaves: whether the calculator was called, the call's
\* record, and what the window shows
Handled(called, st, what) ==
  [called |-> called, st |-> st,
   display |-> IF Failed(st) THEN HandlerExcept(st) ELSE ResultShown(what)]

\* if num_qubits <= 0 or shots <= 0: raise ValueError
PositiveInputs(num_qubits, shots) == ~(num_qubits <= 0 \/ shots <= 0)

\* QuantumVerseCalculatorGUI.observe_qubits
gui_observe_qubits(num_qubits, shots, fault, table) ==
  IF ~PositiveInputs(num_qubits, shots)
  THEN Handled(FALSE, Raise(St0, "ValueError"), "")
  ELSE Handled(TRUE, core_observe_qubits(num_qubits, shots, fault, table),
               "Measurement Results")

\* QuantumVerseCalculatorGUI.calculate_error_rate
gui_calculate_error_rate(num_qubits, shots, fault, table) ==
  IF ~PositiveInputs(num_qubits, shots)
  THEN Handled(FALSE, Raise(St0, "ValueError"), "")
  ELSE Handled(TRUE, core_calculate_error_rates(num_qubits, shots, fault, table),
               "Error Rate")

\* statevector = result.get_statevector(circuit)
GetStatevector(st, i, fault, result) ==
  IF Failed(st) THEN st
  ELSE IF fault = i THEN Raise(st, "LibraryError")
  ELSE [st EXCEPT !.value = [statevector |-> result.statevector]]

\* counts = result.get_counts(circuit), kept beside the statevector
GetCountsToo(st, i, fault, result) ==
  IF Failed(st) THEN st
  ELSE IF fault = i THEN Raise(st, "LibraryError")
  ELSE IF ~result.has_counts THEN Raise(st, "QiskitError")
  ELSE [st EXCEPT !.value = [statevector |-> result.statevector,
                             counts |-> result.counts]]

\* QuantumVerseCalculatorGUI.apply_gate
gui_apply_gate(gate_type, angle, qubit, fault, table) ==
  IF qubit < 0
  THEN Handled(FALSE, Raise(St0, "ValueError"), "")
  ELSE LET s1 == core_calculate_gate_variables(gate_type, angle, qubit, fault)
           s2 == RunStep(s1, 4, fault, GateShots)
           res == RunResult(s2.circuit, GateShots, table)
           s3 == GetStatevector(s2, 6, fault, res)
           s4 == GetCountsToo(s3, 7, fault, res)
       IN Handled(TRUE, s4, "Gate Applied")

\* QuantumVerseCalculatorGUI.calculate_spin
gui_calculate_spin(qubit_state, fault, table) ==
  Handled(TRUE, core_calculate_spin(qubit_state, fault, table), "Spin")

\* all(bit in '01' for bit in target_state)
AllBinary(target_state) ==
  \A i \in 1..Len(target_state) : target_state[i] \in {"0", "1"}

\* QuantumVerseCalculatorGUI.run_grovers
gui_run_grovers(target_state, num_qubits, fault) ==
  IF num_qubits <= 0 \/ ~AllBinary(target_state)
  THEN Handled(FALSE, Raise(St0, "ValueError"), "")
  ELSE Handled(TRUE, core_grovers_speed_between_qubits(target_state, num_qubits, fault),
               "Grover's Speed")

(* ------------------------------- inputs -------------------------------- *)

NumQubitsInputs == (0 - 1)..MaxQubits
ShotsInputs == (0 - 1)..MaxShots
\* fault k: the k-th library step of the call raises (0: none does)
Faults(steps) == 0..steps
AngleInputs == 0..3
QubitInputs == (0 - 2)..(MaxQubits - 1)

GateTypeInputs ==
  { <<"R", "X">>, <<"r", "x">>, <<"R", "y">>, <<"r", "Z">>, <<"H">>, <<"h">>,
    <<"X">>, <<"x">>, <<"Y">>, <<"C", "Z">>, <<"R">>, <<"H", "X">>, <<>> }

\* the values of the gate combobox
GateComboValues == { <<"R", "X">>, <<"R", "Y">>, <<"R", "Z">>, <<"H">>, <<"X">> }

SpinStateInputs == { NoState, <<"0">>, <<"1">>, <<"+">> }

\* the values of the spin combobox
SpinComboValues == { <<"0">>, <<"1">> }

BitStrings(maxlen) == UNION { [1..n -> {"0", "1"}] : n \in 0..maxlen }

TargetInputs == BitStrings(MaxQubits) \cup { <<"2">>, <<"1", "x">> }

\* the tables the backend can draw in a call: drawn from the circuit the
\* call hands to the backend (dry is the call with nothing drawn yet)
TablesFor(dry) ==
  IF Failed(dry) \/ dry.runs = <<>> THEN {<<>>}
  ELSE SampledTables(dry.runs[1].circuit, dry.runs[1].shots)

(* ------------------------------ actions -------------------------------- *)

NoOutcome == [kind |-> "none", error |-> "", value |-> None]

Init ==
  /\ pc = "idle"
  /\ op = "idle"
  /\ args = [fault |-> 0]
  /\ outcome = NoOutcome
  /\ circuit = NoCircuit
  /\ runs = <<>>
  /\ logged = <<>>
  /\ display = NoDisplay
  /\ backend = Backend
  /\ log_queue = <<>>
  /\ log_text = <<>>
  /\ timer = "scheduled"
  /\ put_count = 0

\* a slip that sets the shot count of a run on the shared backend
CoreCallSetsOptions(name, a, st) ==
  /\ pc' = "done"
  /\ op' = name
  /\ args' = a
  /\ outcome' = Outcome(st)
  /\ circuit' = st.circuit
  /\ runs' = st.runs
  /\ logged' = st.log
  /\ display' = NoDisplay
  /\ backend' = IF st.runs # <<>> THEN "AerSimulator(method=statevector, shots)"
                 ELSE backend
  /\ UNCHANGED log_vars

\* a direct call of a calculator method
CoreCall(name, a, st) ==
  /\ pc' = "done"
  /\ op' = name
  /\ args' = a
  /\ outcome' = Outcome(st)
  /\ circuit' = st.circuit
  /\ runs' = st.runs
  /\ logged' = st.log
  /\ display' = NoDisplay
  /\ UNCHANGED backend
  /\ UNCHANGED log_vars

\* a handler of the window
GuiCall(name, a, h) ==
  /\ pc' = "done"
  /\ op' = name
  /\ args' = a
  /\ outcome' = IF h.called THEN Outcome(h.st) ELSE NoOutcome
  /\ circuit' = h.st.circuit
  /\ runs' = h.st.runs
  /\ logged' = h.st.log
  /\ display' = h.display
  /\ UNCHANGED backend
  /\ UNCHANGED log_vars

ObserveQubits ==
  /\ pc = "idle"
  /\ \E n \in NumQubitsInputs, shots \in ShotsInputs, fault \in Faults(7) :
    \E table \in TablesFor(core_observe_qubits(n, shots, fault, <<>>)) :
      CoreCall("observe_qubits",
               [num_qubits |-> n, shots |-> shots, fault |-> fault, table |-> table],
               core_observe_qubits(n, shots, fault, table))

CalculateErrorRates ==
  /\ pc = "idle"
  /\ \E n \in NumQubitsInputs, shots \in ShotsInputs, fault \in Faults(7) :
    \E table \in TablesFor(core_observe_qubits(n, shots, fault, <<>>)) :
      CoreCall("calculate_error_rates",
               [num_qubits |-> n, shots |-> shots, fault |-> fault, table |-> table],
               core_calculate_error_rates(n, shots, fault, table))

CalculateGateVariables ==
  /\ pc = "idle"
  /\ \E g \in GateTypeInputs, angle \in AngleInputs, q \in QubitInputs, fault \in Faults(3) :
    CoreCall("calculate_gate_variables",
             [gate_type |-> g, angle |-> angle, qubit |-> q, fault |-> fault],
             core_calculate_gate_variables(g, angle, q, fault))

CalculateSpin ==
  /\ pc = "idle"
  /\ \E qs \in SpinStateInputs, fault \in Faults(8) :
    \E table \in TablesFor(core_calculate_spin(qs, fault, <<>>)) :
      CoreCall("calculate_spin",
               [qubit_state |-> qs, fault |-> fault, table |-> table],
               core_calculate_spin(qs, fault, table))

GroversSpeedBetweenQubits ==
  /\ pc = "idle"
  /\ \E t \in TargetInputs, n \in NumQubitsInputs, fault \in Faults(9) :
    CoreCall("grovers_speed_between_qubits",
             [target_state |-> t, num_qubits |-> n, fault |-> fault],
             core_grovers_speed_between_qubits(t, n, fault))

GuiObserveQubits ==
  /\ pc = "idle"
  /\ \E n \in NumQubitsInputs, shots \in ShotsInputs, fault \in Faults(7) :
    \E table \in TablesFor(gui_observe_qubits(n, shots, fault, <<>>).st) :
      GuiCall("gui_observe_qubits",
              [num_qubits |-> n, shots |-> shots, fault |-> fault, table |-> table],
              gui_observe_qubits(n, shots, fault, table))

GuiCalculateErrorRate ==
  /\ pc = "idle"
  /\ \E n \in NumQubitsInputs, shots \in ShotsInputs, fault \in Faults(7) :
    \E table \in TablesFor(gui_observe_qubits(n, shots, fault, <<>>).st) :
      GuiCall("gui_calculate_error_rate",
              [num_qubits |-> n, shots |-> shots, fault |-> fault, table |-> table],
              gui_calculate_error_rate(n, shots, fault, table))

GuiApplyGate ==
  /\ pc = "idle"
  /\ \E g \in GateComboValues, angle \in AngleInputs, q \in QubitInputs, fault \in Faults(7) :
    \E table \in TablesFor(gui_apply_gate(g, angle, q, fault, <<>>).st) :
      GuiCall("gui_apply_gate",
              [gate_type |-> g, angle |-> angle, qubit |-> q, fault |-> fault,
               table |-> table],
              gui_apply_gate(g, angle, q, fault, table))

GuiCalculateSpin ==
  /\ pc = "idle"
  /\ \E qs \in SpinComboValues, fault \in Faults(8) :
    \E table \in TablesFor(gui_calculate_spin(qs, fault, <<>>).st) :
      GuiCall("gui_calculate_spin",
              [qubit_state |-> qs, fault |-> fault, table |-> table],
              gui_calculate_spin(qs, fault, table))

GuiRunGrovers ==
  /\ pc = "idle"
  /\ \E t \in TargetInputs, n \in NumQubitsInputs, fault \in Faults(9) :
    GuiCall("gui_run_grovers",
            [target_state |-> t, num_qubits |-> n, fault |-> fault],
            gui_run_grovers(t, n, fault))

\* the call is over: its locals are gone, the main loop waits again
Return ==
  /\ pc = "done"
  /\ pc' = "idle"
  /\ op' = "idle"
  /\ args' = [fault |-> 0]
  /\ outcome' = NoOutcome
  /\ circuit' = NoCircuit
  /\ runs' = <<>>
  /\ logged' = <<>>
  /\ display' = NoDisplay
  /\ UNCHANGED backend
  /\ UNCHANGED log_vars

Next ==
  \/ Return
  \/ ObserveQubits
  \/ CalculateErrorRates
  \/ CalculateGateVariables
  \/ CalculateSpin
  \/ GroversSpeedBetweenQubits
  \/ GuiObserveQubits
  \/ GuiCalculateErrorRate
  \/ GuiApplyGate
  \/ GuiCalculateSpin
  \/ GuiRunGrovers

Spec == Init /\ [][Next]_vars

(* ------------------------------ the log -------------------------------- *)

\* the messages the handlers and apply_settings hand to log()
LogMessages ==
  {"Applied new settings.", "Observed qubits", "Calculated error rate",
   "Applied gate", "Calculated spin", "Ran Grover's algorithm"}

\* the widget calls made for one message, in order
DisplaySteps == <<"config_normal", "insert", "see", "config_disabled">>

\* whether the line is in the widget when the given call raises
Inserted(step) == step \in {"see", "config_disabled"}

\* the while loop of process_log_queue: every message is taken off the
\* queue, then displayed; the display of the at-th message of this run
\* raises in the given call (at = 0: nothing raises), which ends the loop
RECURSIVE DrainLoop(_, _, _, _, _)
DrainLoop(queue, text, at, step, k) ==
  IF queue = <<>> THEN [queue |-> queue, text |-> text, raised |-> FALSE]
  ELSE IF k = at
       THEN [queue |-> Tail(queue),
             text |-> IF Inserted(step) THEN Append(text, Head(queue)) ELSE text,
             raised |-> TRUE]
       ELSE DrainLoop(Tail(queue), Append(text, Head(queue)), at, step, k + 1)

\* log(message): self.log_queue.put(message)
Log ==
  /\ timer = "scheduled"
  /\ put_count < MaxMessages
  /\ \E m \in LogMessages :
       log_queue' = Append(log_queue, [id |-> put_count + 1, text |-> m])
  /\ put_count' = put_count + 1
  /\ UNCHANGED <<log_text, timer, logged>>
  /\ UNCHANGED call_vars

\* the main loop starts the pending after() callback
TimerFires ==
  /\ timer = "scheduled"
  /\ timer' = "running"
  /\ UNCHANGED <<log_queue, log_text, put_count, logged>>
  /\ UNCHANGED call_vars

\* process_log_queue: the loop, the except clause (logging.error) and the
\* finally clause (after(100, self.process_log_queue))
ProcessLogQueue ==
  /\ timer = "running"
  /\ \E at \in 0..Len(log_queue), s \in 1..Len(DisplaySteps) :
       LET r == DrainLoop(log_queue, log_text, at, DisplaySteps[s], 1)
       IN /\ log_queue' = r.queue
          /\ log_text' = r.text
          /\ logged' = IF r.raised THEN <<"error">> ELSE <<>>
  /\ timer' = "scheduled"
  /\ UNCHANGED put_count
  /\ UNCHANGED call_vars

NextLog ==
  \/ Log
  \/ TimerFires
  \/ ProcessLogQueue

SpecLog == Init /\ [][NextLog]_vars

(* ------------------------------- claims -------------------------------- *)

Range(s) == {s[i] : i \in 1..Len(s)}

Done(names) == pc = "done" /\ op \in names

Returned == outcome.kind = "return"

Raised == outcome.kind = "raise"

NamesOf(gates) == [i \in 1..Len(gates) |-> gates[i].name]

AllZero(n) == [i \in 1..n |-> "0"]

\* C1: whenever calculate_error_rates returns, the table observed has a
\* positive total and the value is (sum of the counts of the outcomes that
\* contain a '1') / (sum of all counts), between 0 and 1, and 0 exactly
\* when the all-zero outcome is the only one observed.
C1_ErrorRate ==
  (Done({"calculate_error_rates", "gui_calculate_error_rate"}) /\ Returned) =>
    LET t == args.table
        ones == SumOver(t, {k \in DOMAIN t : "1" \in Range(k)})
        total == SumOver(t, DOMAIN t)
    IN /\ total > 0
       /\ outcome.value = <<ones, total>>
       /\ 0 <= outcome.value[1] /\ outcome.value[1] <= outcome.value[2]
       /\ (outcome.value[1] = 0 <=> DOMAIN t = {AllZero(args.num_qubits)})

C1_Witness ==
  /\ Done({"calculate_error_rates"}) /\ Returned
  /\ args.num_qubits = 2
  /\ outcome.value[1] > 0 /\ outcome.value[1] < outcome.value[2]

\* C2: for num_qubits > 0 and shots > 0, observe_qubits returns (unless the
\* library faults) a table whose keys are bitstrings of length num_qubits
\* and whose counts are non-negative integers that sum to shots.
C2_ObserveTable ==
  (Done({"observe_qubits", "gui_observe_qubits"})
     /\ args.num_qubits > 0 /\ args.shots > 0) =>
    /\ args.fault = 0 => Returned
    /\ Returned =>
         /\ \A k \in DOMAIN outcome.value :
              /\ k \in [1..args.num_qubits -> {"0", "1"}]
              /\ outcome.value[k] \in Nat
         /\ SumOver(outcome.value, DOMAIN outcome.value) = args.shots

C2_Witness ==
  /\ Done({"observe_qubits"}) /\ Returned
  /\ args.num_qubits = 2 /\ args.shots = 3
  /\ Cardinality(DOMAIN outcome.value) = 3

\* C3: calculate_spin hands the backend a one-qubit circuit whose gates are
\* X then H for qubit_state '1' and H alone otherwise, measured with 1024
\* shots, and returns (count of '1') / 1024, between 0 and 1, the divisor
\* being the number of shots sampled.
C3_Spin ==
  Done({"calculate_spin", "gui_calculate_spin"}) =>
    /\ args.fault = 0 => Returned
    /\ runs # <<>> =>
         /\ Len(runs) = 1
         /\ runs[1].circuit.num_qubits = 1
         /\ NamesOf(Gates(runs[1].circuit)) =
              (IF args.qubit_state = <<"1">> THEN <<"x", "h">> ELSE <<"h">>)
         /\ HasMeasure(runs[1].circuit)
         /\ runs[1].shots = 1024
    /\ Returned =>
         /\ runs # <<>>
         /\ outcome.value[1] =
              (IF <<"1">> \in DOMAIN args.table THEN args.table[<<"1">>] ELSE 0)
         /\ outcome.value[2] = 1024
         /\ outcome.value[2] = runs[1].shots
         /\ outcome.value[2] = SumOver(args.table, DOMAIN args.table)
         /\ 0 <= outcome.value[1] /\ outcome.value[1] <= outcome.value[2]

C3_Witness ==
  /\ Done({"calculate_spin"}) /\ Returned
  /\ args.qubit_state = <<"1">>
  /\ outcome.value[1] > 0 /\ outcome.value[1] < outcome.value[2]

\* C4: for a supported gate and qubit >= 0 the gate-application path runs a
\* circuit of qubit + 1 qubits holding one gate, on that qubit, with 1024
\* shots, and yields both the final statevector and an Outcome Table of
\* 1024 shots.
C4_GateReport ==
  (Done({"gui_apply_gate"}) /\ args.qubit >= 0 /\ args.fault = 0) =>
    /\ Len(runs) = 1
    /\ runs[1].circuit.num_qubits = args.qubit + 1
    /\ Len(Gates(runs[1].circuit)) = 1
    /\ Gates(runs[1].circuit)[1].qubits = <<args.qubit>>
    /\ runs[1].shots = 1024
    /\ Returned
    /\ display.kind = "result"
    /\ DOMAIN outcome.value = {"statevector", "counts"}
    /\ SumOver(outcome.value.counts, DOMAIN outcome.value.counts) = 1024

\* round(pi/4 * sqrt(2^n)) for the qubit counts of the model
ClaimedIterations(n) ==
  CASE n = 1 -> 1 [] n = 2 -> 2 [] n = 3 -> 2 [] n = 4 -> 3 [] OTHER -> 4

\* C5: for n >= 1 and a binary target of length n the Grover operation
\* returns round(pi/4 * sqrt(2^n)), whatever the target holds.
C5_GroverCount ==
  (Done({"grovers_speed_between_qubits", "gui_run_grovers"})
     /\ args.num_qubits >= 1 /\ Len(args.target_state) = args.num_qubits
     /\ AllBinary(args.target_state) /\ args.fault = 0) =>
    /\ Returned
    /\ outcome.value = ClaimedIterations(args.num_qubits)

\* C6 as stated: a target whose length differs from num_qubits makes the
\* Grover operation fail with the length-mismatch error, with no oracle
\* gate added and the backend not invoked.
C6_Original ==
  (Done({"grovers_speed_between_qubits"})
     /\ Len(args.target_state) # args.num_qubits) =>
    /\ Raised /\ outcome.error = "ValueError"
    /\ circuit = NoCircuit
    /\ runs = <<>>

\* C6 amended: a target whose length differs from num_qubits makes the
\* Grover operation fail, with no oracle gate added and the backend not
\* invoked; the error is the length-mismatch error when the import of the
\* Grover module succeeded, and ImportError when it did not.
C6_LengthMismatch ==
  (Done({"grovers_speed_between_qubits", "gui_run_grovers"})
     /\ Len(args.target_state) # args.num_qubits) =>
    /\ ~Returned
    /\ circuit = NoCircuit
    /\ runs = <<>>
    /\ op = "gui_run_grovers" => display.kind = "error"
    /\ outcome.kind # "none" =>
         /\ Raised
         /\ outcome.error = (IF args.fault = 1 THEN "ImportError" ELSE "ValueError")

C6_Witness ==
  /\ Done({"grovers_speed_between_qubits"})
  /\ args.target_state = <<"1">> /\ args.num_qubits = 3
  /\ Raised /\ outcome.error = "ValueError"
  /\ runs = <<>>

\* C7: observe_qubits and calculate_error_rates called with num_qubits <= 0
\* or shots <= 0 fail, produce no table or error rate, and never run the
\* backend.
C7_RejectNonPositive ==
  (Done({"observe_qubits", "calculate_error_rates",
         "gui_observe_qubits", "gui_calculate_error_rate"})
     /\ (args.num_qubits <= 0 \/ args.shots <= 0)) =>
    /\ ~Returned
    /\ runs = <<>>

\* the gate kinds H, X, RX, RY, RZ in every letter case
SupportedKinds ==
  { <<"H">>, <<"h">>, <<"X">>, <<"x">> }
    \cup { <<a, b>> : a \in {"R", "r"}, b \in {"X", "x", "Y", "y", "Z", "z"} }

\* the gate a supported kind stands for
KindMethod(g) ==
  IF g \in {<<"H">>, <<"h">>} THEN "h"
  ELSE IF g \in {<<"X">>, <<"x">>} THEN "x"
  ELSE IF g[2] \in {"X", "x"} THEN "rx"
  ELSE IF g[2] \in {"Y", "y"} THEN "ry"
  ELSE "rz"

\* C8: calculate_gate_variables accepts the gate kinds H, X, RX, RY, RZ in
\* any letter case; any other kind fails (with the unsupported-gate error
\* once the register was built), returns no circuit and runs nothing.
C8_UnsupportedGate ==
  Done({"calculate_gate_variables"}) =>
    /\ runs = <<>>
    /\ (args.gate_type \in SupportedKinds /\ args.qubit >= 0 /\ args.fault = 0) =>
         /\ Returned
         /\ Len(Gates(outcome.value)) = 1
         /\ Gates(outcome.value)[1].name = KindMethod(args.gate_type)
         /\ Gates(outcome.value)[1].qubits = <<args.qubit>>
         /\ outcome.value.num_qubits = args.qubit + 1
    /\ args.gate_type \notin SupportedKinds =>
         /\ Raised
         /\ (args.qubit >= 0 /\ args.fault # 1) => outcome.error = "ValueError"

C8_WitnessRefused ==
  /\ Done({"calculate_gate_variables"})
  /\ args.gate_type = <<"C", "Z">> /\ args.qubit = 1
  /\ Raised /\ outcome.error = "ValueError"

CoreOps ==
  {"observe_qubits", "calculate_error_rates", "calculate_gate_variables",
   "calculate_spin", "grovers_speed_between_qubits"}

\* the step named by fault is one the call executes unless an earlier
\* step has raised
FaultStruck ==
  /\ args.fault # 0
  /\ CASE op = "calculate_spin" ->
            args.fault # 2 \/ args.qubit_state = <<"1">>
       [] op = "grovers_speed_between_qubits" ->
            args.fault \notin {3, 5} \/ "0" \in Range(args.target_state)
       [] OTHER -> TRUE

\* C9: in each of the five calculator operations, whenever a step raises
\* (a fault strikes, or an except clause has logged an error) the call
\* ends by raising to its caller and returns no value.
C9_NoSwallow ==
  Done(CoreOps) =>
    ((FaultStruck \/ "error" \in Range(logged)) =>
       /\ Raised
       /\ outcome.error # "")

C9_Witness ==
  /\ Done({"calculate_error_rates"})
  /\ args.fault = 5 /\ args.num_qubits = 2 /\ args.shots = 2
  /\ Raised
  /\ logged = <<"error", "error">>

\* the gates of a circuit as <<name, qubits>> pairs
GateList(c) == [i \in 1..Len(Gates(c)) |-> <<Gates(c)[i].name, Gates(c)[i].qubits>>]

\* the indices (from 0) of the '0' bits of a target, in increasing order
ZeroIndices(t) == SelectSeq([i \in 1..Len(t) |-> i - 1], LAMBDA k : t[k + 1] = "0")

XOn(idx) == [i \in 1..Len(idx) |-> <<"x", <<idx[i]>>>>]

\* X on the '0' bits, CZ on the last two qubits, X on the '0' bits again
ExpectedOracle(t, n) ==
  XOn(ZeroIndices(t)) \o << <<"cz", <<n - 1, n - 2>>>> >> \o XOn(ZeroIndices(t))

\* the gate sequence the arguments of a call stand for
ExpectedGates ==
  CASE op \in {"observe_qubits", "calculate_error_rates",
               "gui_observe_qubits", "gui_calculate_error_rate"} ->
         [i \in 1..args.num_qubits |-> <<"h", <<i - 1>>>>]
    [] op \in {"calculate_spin", "gui_calculate_spin"} ->
         (IF args.qubit_state = <<"1">> THEN << <<"x", <<0>>>>, <<"h", <<0>>>> >>
          ELSE << <<"h", <<0>>>> >>)
    [] op \in {"calculate_gate_variables", "gui_apply_gate"} ->
         << <<KindMethod(args.gate_type), <<args.qubit>>>> >>
    [] OTHER -> ExpectedOracle(args.target_state, args.num_qubits)

\* C11: after any call, succeeding or failing, the calculator's only field
\* (backend) is what the constructor set, and every circuit a call hands to
\* the backend or returns holds exactly the gates its own arguments stand
\* for (nothing left from an earlier call).
C11_Stateless ==
  /\ backend = Backend
  /\ pc = "done" =>
       /\ \A i \in 1..Len(runs) : GateList(runs[i].circuit) = ExpectedGates
       /\ (op = "calculate_gate_variables" /\ Returned) =>
            GateList(outcome.value) = ExpectedGates

C11_Witness ==
  /\ Done({"calculate_spin"})
  /\ args.fault = 8 /\ args.qubit_state = <<"1">>
  /\ Raised /\ runs # <<>>
  /\ backend = Backend

\* C12: for every target of length n = num_qubits (n >= 1) the oracle built
\* is X on the '0' bits in increasing order, one CZ between qubits n-1 and
\* n-2, and X on the same bits again, so that every qubit gets X zero times
\* or twice.
C12_OracleSequence ==
  (Done({"grovers_speed_between_qubits", "gui_run_grovers"})
     /\ outcome.kind # "none"
     /\ args.num_qubits >= 1 /\ Len(args.target_state) = args.num_qubits
     /\ Range(args.target_state) \subseteq {"0", "1"}
     /\ args.fault = 0) =>
    /\ GateList(circuit) = ExpectedOracle(args.target_state, args.num_qubits)
    /\ \A q \in 0..(args.num_qubits - 1) :
         Cardinality({i \in 1..Len(GateList(circuit)) :
                        GateList(circuit)[i] = <<"x", <<q>>>>}) \in {0, 2}

\* the arguments the operations are specified for
InDomain ==
  CASE op \in {"observe_qubits", "calculate_error_rates",
               "gui_observe_qubits", "gui_calculate_error_rate"} ->
         args.num_qubits >= 1 /\ args.shots >= 1
    [] op \in {"calculate_spin", "gui_calculate_spin"} -> TRUE
    [] op \in {"calculate_gate_variables", "gui_apply_gate"} -> args.qubit >= 0
    [] OTHER -> /\ args.num_qubits >= 1
                /\ Len(args.target_state) = args.num_qubits
                /\ Range(args.target_state) \subseteq {"0", "1"}

\* C13: every gate a call places names qubits in 0..size-1 of its register,
\* a two-qubit gate two distinct ones, so that the circuit library refuses
\* no gate; for observe_qubits with n >= 1, calculate_spin,
\* calculate_gate_variables with qubit >= 0 and the Grover oracle with
\* num_qubits >= 1 and a target of that length.
C13_IndicesInRange ==
  (pc = "done" /\ outcome.kind # "none" /\ InDomain /\ args.fault = 0) =>
    /\ outcome.error # "CircuitError"
    /\ \A i \in 1..Len(Gates(circuit)) :
         /\ \A j \in 1..Len(Gates(circuit)[i].qubits) :
              Gates(circuit)[i].qubits[j] \in 0..(circuit.num_qubits - 1)
         /\ Gates(circuit)[i].name = "cz" =>
              Gates(circuit)[i].qubits[1] # Gates(circuit)[i].qubits[2]

Ids(msgs) == {msgs[i].id : i \in 1..Len(msgs)}

\* C14: every message put by log() is, from then on, either still in the
\* queue or among the lines of the log widget (so that the single consumer,
\* which is always scheduled again when a run of it ends, appends it sooner
\* or later), whatever raises while a message is displayed.
C14_AtLeastOnce ==
  /\ timer \in {"scheduled", "running"}
  /\ \A i \in 1..put_count : i \in Ids(log_queue) \cup Ids(log_text)
====
